---- MODULE Spec2Model ----
(***************************************************************************)
(* PID-Controller-Simulation: Python_Implementation/PID_controller.py.     *)
(*                                                                         *)
(* The engine is the function simulate_pid_with_metrics(Kp, Ki, Kd, Gs, t).*)
(* Real numbers are modelled by integers (1.0 is 1); a polynomial is the   *)
(* sequence of its coefficients, highest degree first, as numpy/control    *)
(* keep it.  The python-control calls the function makes (tf, *, feedback, *)
(* step_response, step_info) are modelled by what they do to coefficient   *)
(* sequences; the numerical values the solver produces are a fixed but     *)
(* unknown function of (system, time grid), drawn once per behaviour.      *)
(***************************************************************************)
EXTENDS Integers, Sequences, FiniteSets, TLC

VARIABLES Gs, t, lib, last, kept

vars == <<Gs, t, lib, last, kept>>

----------------------------------------------------------------------------
(* Bounds of the model *)

\* longest time grid, in samples
MaxGridLen == 3
\* the solver's numerical behaviour is one of MaxLib + 1 functions
MaxLib == 1

\* gains the caller passes: negative, zero and positive
GainValues == {-1, 0, 1}

----------------------------------------------------------------------------
(* Polynomials, as numpy does them *)

RECURSIVE Trunc(_)
\* leading zero coefficients are dropped, one coefficient always remains
Trunc(p) == IF Len(p) > 1 /\ p[1] = 0 THEN Trunc(Tail(p)) ELSE p

IsZeroPoly(p) == \A i \in 1..Len(p) : p[i] = 0

Degree(p) == Len(Trunc(p)) - 1

RECURSIVE ConvSum(_, _, _, _)
\* sum over i in 1..n of a[i] * b[k + 1 - i], where both indexes exist
ConvSum(a, b, k, n) ==
    IF n = 0 THEN 0
    ELSE ConvSum(a, b, k, n - 1)
         + (IF (k + 1 - n) \in 1..Len(b) THEN a[n] * b[k + 1 - n] ELSE 0)

polymul(a, b) == [k \in 1..(Len(a) + Len(b) - 1) |-> ConvSum(a, b, k, Len(a))]

Coef(p, i, n) == IF i > n - Len(p) THEN p[i - (n - Len(p))] ELSE 0

polyadd(a, b) ==
    LET n == IF Len(a) > Len(b) THEN Len(a) ELSE Len(b)
    IN  [i \in 1..n |-> Coef(a, i, n) + Coef(b, i, n)]

\* a polynomial times a constant
Scale(k, p) == [i \in 1..Len(p) |-> k * p[i]]

RECURSIVE PolyEval(_, _, _)
\* Horner evaluation of p at x, acc the value so far
PolyEval(p, x, acc) ==
    IF p = <<>> THEN acc ELSE PolyEval(Tail(p), x, acc * x + Head(p))

----------------------------------------------------------------------------
(* Transfer functions *)

NoTF == [num |-> <<>>, den |-> <<>>]

\* ct.tf(num, den)
tf(num, den) == [num |-> Trunc(num), den |-> Trunc(den)]

\* Cs * Gs
tfmul(C, G) == [num |-> Trunc(polymul(C.num, G.num)),
                den |-> Trunc(polymul(C.den, G.den))]

\* denominator of ct.feedback(L, H) for a constant H: den_L + H * num_L
ClosedLoopDen(L, H) == Trunc(polyadd(L.den, Scale(H, L.num)))

\* ct.feedback(L, H): L / (1 + L * H)
feedback(L, H) == [num |-> L.num, den |-> ClosedLoopDen(L, H)]

----------------------------------------------------------------------------
(* The numerical library: step_response and step_info.                      *)
(* Which numbers the solver produces is not the engine's business; the      *)
(* model fixes one deterministic function of (system, time grid) per        *)
(* behaviour, selected by lib.                                              *)

Digest(sys) == PolyEval(sys.num, 2, 0) + 3 * PolyEval(sys.den, 2, 0)

\* a system with more zeros than poles has no state-space form: the solver raises
StepResponseRaises(sys) == Degree(sys.num) > Degree(sys.den)

Sample(sys, tk) == (Digest(sys) + tk + lib) % 3

\* ct.step_response(sys, T=T): the times simulated and the output at each
step_response(sys, T) ==
    [time |-> T, response |-> [k \in 1..Len(T) |-> Sample(sys, T[k])]]

\* the keys of the record step_info returns, each with its place in it
KeyPlace == [RiseTime |-> 0, SettlingTime |-> 1, SettlingMin |-> 2,
             SettlingMax |-> 3, Overshoot |-> 4, Undershoot |-> 5, Peak |-> 6,
             PeakTime |-> 7, SteadyStateValue |-> 8]

StepInfoKeys == DOMAIN KeyPlace

StepInfoRaises(sys, T) == (Digest(sys) + lib) % 2 = 0

\* ct.step_info(sys, T=T, SettlingTimeThreshold=0.02), when it returns
step_info(sys, T) ==
    LET d == Digest(sys) + Len(T) + lib
    IN  [k \in StepInfoKeys |-> (d + KeyPlace[k]) % 3]

----------------------------------------------------------------------------
(* simulate_pid_with_metrics *)

\* the open-loop test forgets Kd
OpenLoopNoKd(Kp, Ki, Kd) == Kp = 0 /\ Ki = 0

\* the open-loop special case: all gains are 0
OpenLoop(Kp, Ki, Kd) == Kp = 0 /\ Ki = 0 /\ Kd = 0

\* one formula for every case: (Kd*s^2 + Kp*s + Ki) / s
ControllerCoeffsUnified(Kp, Ki, Kd) == [num |-> <<Kd, Kp, Ki>>, den |-> <<1, 0>>]

\* the PI case writes Kd for the leading 1 of the denominator
ControllerCoeffsPIDen(Kp, Ki, Kd) ==
    IF Ki = 0 /\ Kd = 0 THEN [num |-> <<Kp>>, den |-> <<1>>]
    ELSE IF Ki = 0 /\ Kd # 0 THEN [num |-> <<Kd, Kp>>, den |-> <<1>>]
    ELSE IF Kd = 0 THEN [num |-> <<Kp, Ki>>, den |-> <<Kd, 0>>]
    ELSE [num |-> <<Kd, Kp, Ki>>, den |-> <<1, 0>>]

\* the coefficient lists handed to ct.tf for the controller C(s)
ControllerCoeffs(Kp, Ki, Kd) ==
    IF Ki = 0 /\ Kd = 0 THEN [num |-> <<Kp>>, den |-> <<1>>]
    ELSE IF Ki = 0 /\ Kd # 0 THEN [num |-> <<Kd, Kp>>, den |-> <<1>>]
    ELSE IF Kd = 0 THEN [num |-> <<Kp, Ki>>, den |-> <<1, 0>>]
    ELSE [num |-> <<Kd, Kp, Ki>>, den |-> <<1, 0>>]

\* the grid is not handed to the solver, which then picks its own
SolveStepOwnGrid(sys, T) ==
    step_response(sys, [i \in 1..(Len(T) + 1) |-> i - 1])

\* the second argument is taken for the sign: ct.feedback(Cs * Gs, -1)
UnityFeedbackMinusOne(L) == feedback(L, -1)

\* ct.feedback(Cs * Gs, 1)
UnityFeedback(L) == feedback(L, 1)

\* time, response = ct.step_response(system_to_sim, T=t)
SolveStep(sys, T) == step_response(sys, T)

\* the first sample is taken for the last
SteadyStateErrorFirst(response) == 1 - response[1]

\* steady_state_error = 1.0 - response[-1]
SteadyStateError(response) == 1 - response[Len(response)]

\* info = ct.step_info(...); info['SteadyStateError'] = steady_state_error
PrimaryInfo(stepinfo, response) ==
    [k \in DOMAIN stepinfo \cup {"SteadyStateError"} |->
        IF k = "SteadyStateError" THEN SteadyStateError(response)
        ELSE stepinfo[k]]

\* the except branch forgets RiseTime
FallbackInfoNoRiseTime(response) ==
    [k \in {"SteadyStateError", "Overshoot", "SettlingTime"} |->
        IF k = "SteadyStateError" THEN 1 - response[Len(response)] ELSE 0]

\* info lives across calls: the except branch updates the previous call's record
FallbackInfoStale(response) ==
    [k \in DOMAIN last.info \cup {"SteadyStateError", "Overshoot", "SettlingTime", "RiseTime"} |->
        IF k = "SteadyStateError" THEN 1 - response[Len(response)]
        ELSE IF k \in {"Overshoot", "SettlingTime", "RiseTime"} THEN 0
        ELSE last.info[k]]

\* the record built in the except branch
FallbackInfo(response) ==
    [k \in {"SteadyStateError", "Overshoot", "SettlingTime", "RiseTime"} |->
        IF k = "SteadyStateError" THEN SteadyStateError(response) ELSE 0]

\* the warning printed in the except branch
Warning(Kp, Ki, Kd) ==
    <<[text |-> "Warning: Coud not calculate step_info",
       Kp |-> Kp, Ki |-> Ki, Kd |-> Kd, error |-> "step_info"]>>

\* what is known of a call: nothing has been called yet
NoCall ==
    [status |-> "none", stage |-> "none", Kp |-> 0, Ki |-> 0, Kd |-> 0,
     Cs |-> NoTF, loop |-> NoTF, clDen |-> <<>>, system_to_sim |-> NoTF,
     time |-> <<>>, response |-> <<>>, info |-> <<>>, diag |-> <<>>]

Raised(call, stage) == [call EXCEPT !.status = "raised", !.stage = stage]

\* the except clause is too narrow and the failure of step_info escapes
MetricsPropagates(call) ==
    IF StepInfoRaises(call.system_to_sim, call.time)
    THEN [call EXCEPT !.status = "raised", !.stage = "step_info"]
    ELSE [call EXCEPT !.status = "returned", !.stage = "primary",
                      !.info = [k \in DOMAIN step_info(call.system_to_sim, call.time)
                                        \cup {"SteadyStateError"} |->
                                   IF k = "SteadyStateError"
                                   THEN 1 - call.response[Len(call.response)]
                                   ELSE step_info(call.system_to_sim, call.time)[k]]]

\* the try/except around step_info, and the return
Metrics(call) ==
    IF StepInfoRaises(call.system_to_sim, call.time)
    THEN [call EXCEPT !.status = "returned", !.stage = "fallback",
                      !.diag = Warning(call.Kp, call.Ki, call.Kd),
                      !.info = FallbackInfo(call.response)]
    ELSE [call EXCEPT !.status = "returned", !.stage = "primary",
                      !.info = PrimaryInfo(step_info(call.system_to_sim, call.time),
                                           call.response)]

\* the step response of system_to_sim, outside any try
Solve(call, T) ==
    IF StepResponseRaises(call.system_to_sim)
    THEN Raised(call, "step_response")
    ELSE LET r == SolveStep(call.system_to_sim, T)
         IN  Metrics([call EXCEPT !.time = r.time, !.response = r.response])

\* the closed loop ct.feedback(Cs * Gs, 1), outside any try
ClosedLoop(call, G, T) ==
    LET args == ControllerCoeffs(call.Kp, call.Ki, call.Kd)
        built == [call EXCEPT !.Cs = args]
    IN  IF IsZeroPoly(args.den)
        THEN Raised(built, "controller")
        ELSE LET L == tfmul(tf(args.num, args.den), G)
                 cl == UnityFeedback(L)
                 looped == [built EXCEPT !.loop = L, !.clDen = cl.den]
             IN  IF IsZeroPoly(cl.den)
                 THEN Raised(looped, "feedback")
                 ELSE Solve([looped EXCEPT !.system_to_sim = cl], T)

simulate_pid_with_metrics(Kp, Ki, Kd, G, T) ==
    LET call == [NoCall EXCEPT !.Kp = Kp, !.Ki = Ki, !.Kd = Kd]
    IN  IF OpenLoop(Kp, Ki, Kd)
        THEN Solve([call EXCEPT !.system_to_sim = G], T)
        ELSE ClosedLoop(call, G, T)

----------------------------------------------------------------------------
(* The caller: the plant and the time grid are built once and every call    *)
(* of the engine is handed the same two objects.                            *)

\* np.linspace(0, step * (n - 1), n)
linspace(step, n) == [i \in 1..n |-> step * (i - 1)]

TimeGrids == {linspace(1, n) : n \in 2..MaxGridLen}

\* G(s) = 5 / (s^2 + 11s + 10)
Motor == tf(<<5>>, <<1, 11, 10>>)

\* plants a caller may hand over: the motor, a first-order lag, a pure gain
Plants == {Motor, tf(<<1>>, <<1, 1>>), tf(<<1>>, <<1>>)}

Init ==
    /\ Gs \in Plants
    /\ t \in TimeGrids
    /\ lib \in 0..MaxLib
    /\ last = NoCall
    /\ kept = NoCall

\* one call of the engine on the caller's plant and grid
Call(Kp, Ki, Kd) ==
    /\ last' = simulate_pid_with_metrics(Kp, Ki, Kd, Gs, t)
    /\ UNCHANGED <<Gs, t, lib, kept>>

\* the caller holds on to a result while it makes further calls
Retain ==
    /\ last.status # "none"
    /\ kept' = last
    /\ UNCHANGED <<Gs, t, lib, last>>

Next ==
    \/ \E Kp \in GainValues, Ki \in GainValues, Kd \in GainValues : Call(Kp, Ki, Kd)
    \/ Retain

Spec == Init /\ [][Next]_vars

----------------------------------------------------------------------------
(* Properties *)

Called(c) == c.status # "none"

Returned(c) == c.status = "returned"

AllZero(c) == c.Kp = 0 /\ c.Ki = 0 /\ c.Kd = 0

\* the step solve of the call completed
Solved(c) == Called(c) /\ c.time # <<>>

RelDegree(G) == Degree(G.den) - Degree(G.num)

\* C1: whenever the call returns, on the primary and on the fallback path,
\* SteadyStateError is 1.0 minus the last element of the returned response.
C1_SteadyStateErrorIsOneMinusLast ==
    \A c \in {last, kept} :
        Returned(c) =>
            /\ "SteadyStateError" \in DOMAIN c.info
            /\ c.info["SteadyStateError"] = 1 - c.response[Len(c.response)]

C1_Witness ==
    /\ Returned(last) /\ last.stage = "fallback"
    /\ Returned(kept) /\ kept.stage = "primary"
    /\ last.response[1] # last.response[Len(last.response)]
    /\ last.info["SteadyStateError"] # kept.info["SteadyStateError"]

\* C2: every returned record holds the four keys Overshoot, SettlingTime,
\* RiseTime and SteadyStateError, for any gains and on both paths.
C2_FourKeysAlways ==
    Returned(last) =>
        {"Overshoot", "SettlingTime", "RiseTime", "SteadyStateError"}
            \subseteq DOMAIN last.info

C2_Witness ==
    /\ Returned(last) /\ last.stage = "fallback"
    /\ last.Kp = -1 /\ last.Ki = -1 /\ last.Kd = -1
    /\ Returned(kept) /\ kept.stage = "primary"

\* C3: when step_info raises, the failure does not reach the caller: a
\* diagnostic naming the gains is printed and the call returns the zeroed
\* record with the independently computed SteadyStateError, together with the
\* times and the response of the step solve, unchanged.
C3_FallbackOnStepInfoFailure ==
    (Solved(last) /\ StepInfoRaises(last.system_to_sim, last.time)) =>
        /\ last.status = "returned"
        /\ Len(last.diag) = 1
        /\ last.diag[1].Kp = last.Kp
        /\ last.diag[1].Ki = last.Ki
        /\ last.diag[1].Kd = last.Kd
        /\ DOMAIN last.info = {"Overshoot", "SettlingTime", "RiseTime", "SteadyStateError"}
        /\ last.info["Overshoot"] = 0
        /\ last.info["SettlingTime"] = 0
        /\ last.info["RiseTime"] = 0
        /\ last.info["SteadyStateError"] = 1 - last.response[Len(last.response)]
        /\ last.time = step_response(last.system_to_sim, t).time
        /\ last.response = step_response(last.system_to_sim, t).response

C3_Witness ==
    /\ Solved(last) /\ StepInfoRaises(last.system_to_sim, last.time)
    /\ ~AllZero(last)
    /\ last.info["SteadyStateError"] # 0

\* C4: for every plant with a non-zero denominator, every non-empty grid and
\* every gain triple the call returns: no failure reaches the caller.
C4_EveryCallReturns == Called(last) => last.status = "returned"

\* C5: with all gains 0 no controller is built and the plant itself is
\* simulated, so the response is the plant's own step response on the grid;
\* with any other gains the system simulated is the unity negative feedback
\* loop num_C*num_G / (den_C*den_G + num_C*num_G).
C5_OpenLoopIffAllZero ==
    /\ (Called(last) /\ AllZero(last)) =>
          /\ last.Cs = NoTF /\ last.loop = NoTF
          /\ last.system_to_sim = Gs
          /\ Returned(last) => last.response = step_response(Gs, t).response
    /\ (Called(last) /\ ~AllZero(last)) =>
          /\ last.Cs # NoTF
          /\ last.system_to_sim # NoTF =>
                /\ last.system_to_sim.num = Trunc(polymul(last.Cs.num, Gs.num))
                /\ last.system_to_sim.den =
                      Trunc(polyadd(polymul(last.Cs.den, Gs.den),
                                    polymul(last.Cs.num, Gs.num)))

C5_Witness ==
    /\ Returned(last) /\ AllZero(last) /\ last.system_to_sim = Motor
    /\ Returned(kept) /\ ~AllZero(kept) /\ kept.Kp = 0 /\ kept.Ki = 0
    /\ kept.response # last.response

\* C6: the controller cases exclude one another and cover every gain triple,
\* and each triple that is not all zero gets the stated coefficients; the
\* denominator [1, 0] appears only when Ki # 0.
C6_ControllerCases ==
    Called(last) =>
        LET Kp == last.Kp
            Ki == last.Ki
            Kd == last.Kd
        IN  /\ AllZero(last) => last.Cs = NoTF
            /\ (~AllZero(last) /\ Ki = 0 /\ Kd = 0) =>
                  last.Cs = [num |-> <<Kp>>, den |-> <<1>>]
            /\ (Ki = 0 /\ Kd # 0) =>
                  last.Cs = [num |-> <<Kd, Kp>>, den |-> <<1>>]
            /\ (Kd = 0 /\ Ki # 0) =>
                  last.Cs = [num |-> <<Kp, Ki>>, den |-> <<1, 0>>]
            /\ (Ki # 0 /\ Kd # 0) =>
                  last.Cs = [num |-> <<Kd, Kp, Ki>>, den |-> <<1, 0>>]
            /\ last.Cs.den = <<1, 0>> => Ki # 0

C6_Witness ==
    /\ Called(last) /\ last.Kp = 0 /\ last.Ki = 1 /\ last.Kd = 0
    /\ last.Cs.den = <<1, 0>>
    /\ Called(kept) /\ kept.Ki = 0 /\ kept.Kd = -1 /\ kept.Cs.den = <<1>>

\* C7 as written: for all gains with Ki = Kd = 0 the controller is the pure
\* gain [Kp] / [1] and the system simulated is the unity feedback loop around
\* Kp times the plant.
C7_PureGainForAllKp ==
    (Called(last) /\ last.Ki = 0 /\ last.Kd = 0) =>
        /\ last.Cs = [num |-> <<last.Kp>>, den |-> <<1>>]
        /\ last.system_to_sim # NoTF =>
              /\ last.system_to_sim.num = Trunc(Scale(last.Kp, Gs.num))
              /\ last.system_to_sim.den =
                    Trunc(polyadd(Gs.den, Scale(last.Kp, Gs.num)))

\* C7 amended: the same for all gains with Ki = Kd = 0 and Kp # 0; with
\* Kp = 0 as well no controller is built and the plant is simulated open loop.
C7_PureGainForNonZeroKp ==
    (Called(last) /\ last.Ki = 0 /\ last.Kd = 0 /\ last.Kp # 0) =>
        /\ last.Cs = [num |-> <<last.Kp>>, den |-> <<1>>]
        /\ last.loop = [num |-> Trunc(Scale(last.Kp, Gs.num)), den |-> Gs.den]
        /\ last.system_to_sim # NoTF =>
              /\ last.system_to_sim.num = Trunc(Scale(last.Kp, Gs.num))
              /\ last.system_to_sim.den =
                    Trunc(polyadd(Gs.den, Scale(last.Kp, Gs.num)))

C7_Witness ==
    /\ Returned(last) /\ last.Ki = 0 /\ last.Kd = 0 /\ last.Kp = 1
    /\ Gs = Motor
    /\ last.system_to_sim = [num |-> <<5>>, den |-> <<1, 11, 15>>]

C9_NoZeroDenominatorAnyPlant ==
    (Called(last) /\ ~AllZero(last)) =>
        /\ ~IsZeroPoly(last.Cs.den)
        /\ last.loop # NoTF /\ ~IsZeroPoly(last.loop.den)
        /\ last.clDen # <<>> /\ ~IsZeroPoly(last.clDen)

\* C9 amended: the controller and the loop product have a non-zero
\* denominator for every gain triple and every plant with a non-zero
\* denominator; den_C*den_G + num_C*num_G is non-zero when the plant has at
\* least two more poles than zeros, or at least one more and Kd = 0; for other
\* plants it can be the zero polynomial, and then feedback raises and no
\* closed-loop system is built.
C9_NoZeroDenominatorStrictlyProperPlant ==
    (Called(last) /\ ~AllZero(last)) =>
        /\ ~IsZeroPoly(last.Cs.den)
        /\ last.loop # NoTF /\ ~IsZeroPoly(last.loop.den)
        /\ last.clDen # <<>>
        /\ RelDegree(Gs) > (IF last.Kd # 0 THEN 1 ELSE 0) => ~IsZeroPoly(last.clDen)
        /\ IsZeroPoly(last.clDen) =>
              last.status = "raised" /\ last.system_to_sim = NoTF
        /\ last.system_to_sim # NoTF => ~IsZeroPoly(last.system_to_sim.den)

C9_Witness ==
    /\ Returned(last) /\ Gs = Motor
    /\ last.Kp = -1 /\ last.Ki = 1 /\ last.Kd = -1
    /\ last.clDen = <<1, 6, 5, 5>>

====
